---- MODULE Spec2Model ----
(***************************************************************************)
(* jl2js: fn process(reader, writer, pretty) of src/main.rs, which reads a *)
(* JSON Lines stream and writes one JSON array.                            *)
(*                                                                         *)
(* A byte is modelled as a token (a TLA+ string); a stream, a line and the *)
(* output are sequences of tokens.  Structural characters and white space  *)
(* are one token each; a string literal and the literal null are one token *)
(* each; a number is a run of digit tokens.                                *)
(***************************************************************************)
EXTENDS Integers, Sequences, FiniteSets

\* ------------------------------------------------------------------ bounds
\* Most lines a generated input stream is built from.
MaxLines == 3
\* Capacity of the BufWriter's buffer, in tokens (scaled down from std's 8 KiB).
BufCap == 8
\* Largest finite number of tokens the output sink accepts before it fails.
MaxSinkCap == 1
\* Latest call of Lines::next, counted in chunks read before it, at which the
\* reader's read() may fail.
MaxFaultAt == 1

\* ---------------------------------------------------------------- alphabet
NL == "\n"
CR == "\r"
SP == " "
BadByte == "0xFF"                  \* a byte that is not valid UTF-8
WhiteSpace == {SP, NL, "\t", CR}
Digits == {"1"}
StringTokens == {"\"foo\"", "\"bar\"", "\"baz\""}
\* serde_json's Map is a BTreeMap: keys are kept in sorted order.
KeyRank(k) == CASE k = "\"bar\"" -> 1 [] k = "\"baz\"" -> 2 [] OTHER -> 3

Min(a, b) == IF a < b THEN a ELSE b

\* ------------------------------------------------------------- JSON values
\* serde_json::Value.  Every value has the same three fields; the elements
\* of an array and the entries of an object are records [k, v].
Null == [t |-> "null", s |-> <<>>, items |-> <<>>]
Num(d) == [t |-> "num", s |-> d, items |-> <<>>]
Str(tok) == [t |-> "str", s |-> <<tok>>, items |-> <<>>]
Arr(items) == [t |-> "arr", s |-> <<>>, items |-> items]
Obj(items) == [t |-> "obj", s |-> <<>>, items |-> items]

Fail == [ok |-> FALSE, v |-> Null, i |-> 0]
Good(v, i) == [ok |-> TRUE, v |-> v, i |-> i]

\* Map::insert: replaces the value of an existing key, keeps key order.
RECURSIVE MapInsert(_, _, _)
MapInsert(items, k, v) ==
    IF items = <<>> THEN <<[k |-> k, v |-> v]>>
    ELSE IF Head(items).k = k THEN <<[k |-> k, v |-> v]>> \o Tail(items)
    ELSE IF KeyRank(k) < KeyRank(Head(items).k) THEN <<[k |-> k, v |-> v]>> \o items
    ELSE <<Head(items)>> \o MapInsert(Tail(items), k, v)

\* ------------------------------------------------------------- the parser
RECURSIVE SkipWs(_, _)
SkipWs(s, i) == IF i <= Len(s) /\ s[i] \in WhiteSpace THEN SkipWs(s, i + 1) ELSE i

RECURSIVE DigitsEnd(_, _)
DigitsEnd(s, i) == IF i <= Len(s) /\ s[i] \in Digits THEN DigitsEnd(s, i + 1) ELSE i

\* The one element of a singleton set.  A parse result is bound as the
\* element of a singleton so that it is computed once where it is used.
TheOne(S) == CHOOSE x \in S : TRUE

RECURSIVE ParseValue(_, _)
RECURSIVE ParseItems(_, _, _)
RECURSIVE ParseEntries(_, _, _)

\* After an element r of an array: ',' and the next element, or ']'.
AfterItem(s, r, acc) ==
    IF ~r.ok THEN Fail
    ELSE LET j == SkipWs(s, r.i)
             acc2 == Append(acc, [k |-> "", v |-> r.v]) IN
         IF j > Len(s) THEN Fail
         ELSE IF s[j] = "," THEN ParseItems(s, j + 1, acc2)
         ELSE IF s[j] = "]" THEN Good(Arr(acc2), j + 1)
         ELSE Fail

\* After '[' or ',': one element, then ',' or ']'.
ParseItems(s, i0, acc) ==
    TheOne({AfterItem(s, r, acc) : r \in {ParseValue(s, i0)}})

\* After the value r of the key k of an object: ',' and the next entry, or '}'.
AfterEntry(s, k, r, acc) ==
    IF ~r.ok THEN Fail
    ELSE LET j == SkipWs(s, r.i)
             acc2 == MapInsert(acc, k, r.v) IN
         IF j > Len(s) THEN Fail
         ELSE IF s[j] = "," THEN ParseEntries(s, j + 1, acc2)
         ELSE IF s[j] = "}" THEN Good(Obj(acc2), j + 1)
         ELSE Fail

\* After '{' or ',': a string key, ':', a value, then ',' or '}'.
ParseEntries(s, i0, acc) ==
    LET i == SkipWs(s, i0) IN
    IF i > Len(s) \/ s[i] \notin StringTokens THEN Fail
    ELSE LET c == SkipWs(s, i + 1) IN
         IF c > Len(s) \/ s[c] # ":" THEN Fail
         ELSE TheOne({AfterEntry(s, s[i], r, acc) : r \in {ParseValue(s, c + 1)}})

ParseValue(s, i0) ==
    LET i == SkipWs(s, i0) IN
    IF i > Len(s) THEN Fail
    ELSE IF s[i] = "null" THEN Good(Null, i + 1)
    ELSE IF s[i] \in StringTokens THEN Good(Str(s[i]), i + 1)
    ELSE IF s[i] \in Digits
         THEN LET j == DigitsEnd(s, i) IN Good(Num(SubSeq(s, i, j - 1)), j)
    ELSE IF s[i] = "["
         THEN LET j == SkipWs(s, i + 1) IN
              IF j <= Len(s) /\ s[j] = "]" THEN Good(Arr(<<>>), j + 1)
              ELSE ParseItems(s, i + 1, <<>>)
    ELSE IF s[i] = "{"
         THEN LET j == SkipWs(s, i + 1) IN
              IF j <= Len(s) /\ s[j] = "}" THEN Good(Obj(<<>>), j + 1)
              ELSE ParseEntries(s, i + 1, <<>>)
    ELSE Fail

\* serde_json::from_str: one value, then only white space to the end.
EndOf(s, r) == IF r.ok /\ SkipWs(s, r.i) > Len(s) THEN Good(r.v, r.i) ELSE Fail
FromStr(s) == TheOne({EndOf(s, r) : r \in {ParseValue(s, 1)}})

\* --------------------------------------------------------- the serializers
RECURSIVE ToStringCompact(_)
RECURSIVE ItemsToString(_, _)
ItemsToString(items, isObj) ==
    IF items = <<>> THEN <<>>
    ELSE (IF isObj THEN <<Head(items).k, ":">> ELSE <<>>)
         \o ToStringCompact(Head(items).v)
         \o (IF Len(items) > 1 THEN <<",">> ELSE <<>>)
         \o ItemsToString(Tail(items), isObj)

\* serde_json::to_string: CompactFormatter.
ToStringCompact(v) ==
    CASE v.t = "null" -> <<"null">>
      [] v.t = "arr" -> <<"[">> \o ItemsToString(v.items, FALSE) \o <<"]">>
      [] v.t = "obj" -> <<"{">> \o ItemsToString(v.items, TRUE) \o <<"}">>
      [] OTHER -> v.s

RECURSIVE Indent(_)
Indent(n) == IF n = 0 THEN <<>> ELSE <<SP, SP>> \o Indent(n - 1)

RECURSIVE ToPretty(_, _)
RECURSIVE ItemsToPretty(_, _, _)
ItemsToPretty(items, isObj, lvl) ==
    IF items = <<>> THEN <<>>
    ELSE <<NL>> \o Indent(lvl)
         \o (IF isObj THEN <<Head(items).k, ":", SP>> ELSE <<>>)
         \o ToPretty(Head(items).v, lvl)
         \o (IF Len(items) > 1 THEN <<",">> ELSE <<>>)
         \o ItemsToPretty(Tail(items), isObj, lvl)

\* PrettyFormatter at nesting level lvl: an empty array or object stays on
\* one line; otherwise one item per line, two spaces per level.
ToPretty(v, lvl) ==
    CASE v.t = "null" -> <<"null">>
      [] v.t \in {"arr", "obj"} ->
           LET open == IF v.t = "arr" THEN "[" ELSE "{"
               close == IF v.t = "arr" THEN "]" ELSE "}" IN
           IF v.items = <<>> THEN <<open, close>>
           ELSE <<open>> \o ItemsToPretty(v.items, v.t = "obj", lvl + 1)
                \o <<NL>> \o Indent(lvl) \o <<close>>
      [] OTHER -> v.s

\* serde_json::to_string_pretty
ToStringPretty(v) == ToPretty(v, 0)

\* -------------------------------------------------------------- BufReader
\* read_until(b'\n'): the chunk read from pos ends at the first line feed
\* at or after pos, or at the end of the stream.
RECURSIVE ChunkEnd(_, _)
ChunkEnd(s, i) ==
    IF i >= Len(s) THEN Len(s) ELSE IF s[i] = NL THEN i ELSE ChunkEnd(s, i + 1)

\* Lines::next: a trailing "\n" is removed, and then a trailing "\r".
StripLineEnding(chunk) ==
    IF chunk # <<>> /\ chunk[Len(chunk)] = NL
    THEN LET c == SubSeq(chunk, 1, Len(chunk) - 1) IN
         IF c # <<>> /\ c[Len(c)] = CR THEN SubSeq(c, 1, Len(c) - 1) ELSE c
    ELSE chunk

\* Mutant of ReadLine: a last line that no line feed ends is not returned.
ReadLineNeedsLineFeed(s, p) ==
    IF p > Len(s) THEN [kind |-> "eof", line |-> <<>>, pos |-> p]
    ELSE LET e == ChunkEnd(s, p)
             chunk == SubSeq(s, p, e) IN
         IF \E i \in 1..Len(chunk) : chunk[i] = BadByte
         THEN [kind |-> "err", line |-> <<>>, pos |-> e + 1]
         ELSE IF s[e] # NL THEN [kind |-> "eof", line |-> <<>>, pos |-> e + 1]
         ELSE [kind |-> "ok", line |-> StripLineEnding(chunk), pos |-> e + 1]

\* Mutant of ReadLine: blank lines are skipped.
RECURSIVE ReadLineSkipsBlank(_, _)
ReadLineSkipsBlank(s, p) ==
    IF p > Len(s) THEN [kind |-> "eof", line |-> <<>>, pos |-> p]
    ELSE LET e == ChunkEnd(s, p)
             chunk == SubSeq(s, p, e) IN
         IF \E i \in 1..Len(chunk) : chunk[i] = BadByte
         THEN [kind |-> "err", line |-> <<>>, pos |-> e + 1]
         ELSE IF StripLineEnding(chunk) = <<>> THEN ReadLineSkipsBlank(s, e + 1)
         ELSE [kind |-> "ok", line |-> StripLineEnding(chunk), pos |-> e + 1]

\* One call of Lines::next on the bytes of s from pos on: "eof" (read_line
\* returned Ok(0)), "ok" with the line, or "err" (the chunk is not UTF-8;
\* its bytes are consumed all the same).
ReadLine(s, p) ==
    IF p > Len(s) THEN [kind |-> "eof", line |-> <<>>, pos |-> p]
    ELSE LET e == ChunkEnd(s, p)
             chunk == SubSeq(s, p, e) IN
         IF \E i \in 1..Len(chunk) : chunk[i] = BadByte
         THEN [kind |-> "err", line |-> <<>>, pos |-> e + 1]
         ELSE [kind |-> "ok", line |-> StripLineEnding(chunk), pos |-> e + 1]

\* -------------------------------------------------------------- BufWriter
\* The sink takes tokens until cap tokens are in it (cap < 0: no limit);
\* a write_all that does not fit leaves the part that did and fails.
SinkWrite(snk, cap, data) ==
    LET n == IF cap < 0 THEN Len(data) ELSE Min(Len(data), cap - Len(snk)) IN
    [ok |-> n = Len(data), sink |-> snk \o SubSeq(data, 1, n), n |-> n]

\* BufWriter::flush_buf: what the sink took leaves the buffer.
FlushBuf(w, cap) ==
    LET r == SinkWrite(w.sink, cap, w.buf) IN
    [ok |-> r.ok, buf |-> SubSeq(w.buf, r.n + 1, Len(w.buf)), sink |-> r.sink]

\* BufWriter::write_all: data shorter than the spare capacity is buffered;
\* otherwise the buffer is flushed if data does not fit, and data goes
\* straight to the sink when it is at least as long as the buffer.
WriteAll(w, cap, data) ==
    LET spare == BufCap - Len(w.buf) IN
    IF Len(data) < spare
    THEN [ok |-> TRUE, buf |-> w.buf \o data, sink |-> w.sink]
    ELSE LET f == IF Len(data) > spare THEN FlushBuf(w, cap)
                  ELSE [ok |-> TRUE, buf |-> w.buf, sink |-> w.sink] IN
         IF ~f.ok THEN f
         ELSE IF Len(data) >= BufCap
              THEN LET r == SinkWrite(f.sink, cap, data) IN
                   [ok |-> r.ok, buf |-> f.buf, sink |-> r.sink]
              ELSE [ok |-> TRUE, buf |-> f.buf \o data, sink |-> f.sink]

\* A run of write_all(..)? calls: stops at the first one that fails.  log
\* collects the data of the calls that returned Ok.
RECURSIVE WriteSeq(_, _, _, _)
WriteSeq(w, cap, datas, log) ==
    IF datas = <<>> THEN [ok |-> TRUE, buf |-> w.buf, sink |-> w.sink, log |-> log]
    ELSE LET r == WriteAll(w, cap, Head(datas)) IN
         IF ~r.ok THEN [ok |-> FALSE, buf |-> r.buf, sink |-> r.sink, log |-> log]
         ELSE WriteSeq(r, cap, Tail(datas), Append(log, Head(datas)))

\* ------------------------------------------------- the writes of process()
\* lines 76-80
OpenWrites(p) == <<(<<"[">>)>> \o (IF p THEN <<(<<NL>>)>> ELSE <<>>)

\* Mutant of SeparatorWrites: the separator is written before the first
\* element too.
SeparatorWritesAlways(isFirst, p) ==
    <<(<<",">>)>> \o (IF p THEN <<(<<NL>>)>> ELSE <<>>)

\* lines 85-91
SeparatorWrites(isFirst, p) ==
    IF ~isFirst THEN <<(<<",">>)>> \o (IF p THEN <<(<<NL>>)>> ELSE <<>>) ELSE <<>>

\* lines 97-101
Serialized(v, p) == IF p THEN ToStringPretty(v) ELSE ToStringCompact(v)

\* Mutant of CloseWrites: the newline before ']' does not depend on pretty.
CloseWritesNewline(p) == <<(<<NL>>), (<<"]">>)>>

\* lines 106-110
CloseWrites(p) == (IF p THEN <<(<<NL>>)>> ELSE <<>>) \o <<(<<"]">>)>>

\* ------------------------------------------------------------ input streams
LineFoo == <<"{", "\"foo\"", ":", SP, "\"bar\"", "}">>
LineArr == <<"[", "1", ",", SP, "[", "1", "]", "]">>
LineBlank == <<>>
LineMalformed == LineFoo \o <<"{", "\"foo\"", ":", SP, "\"baz">>
LineNotUtf8 == <<BadByte>>
LineSet == {LineFoo, LineArr, LineBlank, LineMalformed, LineNotUtf8}

RECURSIVE SeqsUpTo(_, _)
SeqsUpTo(S, n) ==
    IF n = 0 THEN {<<>>}
    ELSE LET shorter == SeqsUpTo(S, n - 1) IN
         shorter \cup {Append(q, x) : q \in {r \in shorter : Len(r) = n - 1}, x \in S}

\* The lines joined by line feeds, with or without a final line feed.
RECURSIVE Join(_, _)
Join(ls, final) ==
    IF ls = <<>> THEN <<>>
    ELSE Head(ls) \o (IF Len(ls) > 1 \/ final THEN <<NL>> ELSE <<>>) \o Join(Tail(ls), final)

Streams == {Join(ls, final) : ls \in SeqsUpTo(LineSet, MaxLines), final \in BOOLEAN}

\* ------------------------------------------------------------------- state
VARIABLES
    stream,      \* the bytes of the reader
    pretty,      \* the pretty argument
    rdFault,     \* "none", or how the reader's read() fails: "transient" (once), "persistent"
    rdFaultAt,   \* the read fails at the call of Lines::next that follows this many chunks
    sinkCap,     \* tokens the writer accepts before its write() fails; -1: all
    pos,         \* BufReader: index of the next unread byte
    chunks,      \* chunks consumed so far
    polls,       \* parity of the calls of Lines::next so far
    line,        \* the loop variable
    value,       \* the parsed Value
    first,       \* the flag of line 82
    buf,         \* BufWriter: buffered, not yet in the sink
    sink,        \* what the writer has received
    writes,      \* history: the data of the write_all calls that returned Ok
    parsed,      \* history: the lines handed to serde_json::from_str
    discarded,   \* history: some Err of Lines::next was dropped by flatten()
    result,      \* "running", "Ok", "Err"
    pc

params == <<stream, pretty, rdFaultAt, sinkCap>>
vars == <<stream, pretty, rdFault, rdFaultAt, sinkCap, pos, chunks, polls, line,
          value, first, buf, sink, writes, parsed, discarded, result, pc>>

Init ==
    /\ stream \in Streams
    /\ pretty \in BOOLEAN
    /\ rdFault \in {"none", "transient", "persistent"}
    /\ rdFaultAt \in IF rdFault = "none" THEN {0} ELSE 0..MaxFaultAt
    /\ sinkCap \in {-1} \cup 0..MaxSinkCap
    /\ pos = 1
    /\ chunks = 0
    /\ polls = 0
    /\ line = <<>>
    /\ value = Null
    /\ first = TRUE
    /\ buf = <<>>
    /\ sink = <<>>
    /\ writes = <<>>
    /\ parsed = <<>>
    /\ discarded = FALSE
    /\ result = "running"
    /\ pc = "open"

\* The write_all(..)? calls of one step: on success control goes to `then`,
\* on failure process returns the error.
DoWrites(datas, then) ==
    LET r == WriteSeq([buf |-> buf, sink |-> sink], sinkCap, datas, writes) IN
    /\ buf' = r.buf
    /\ sink' = r.sink
    /\ writes' = r.log
    /\ IF r.ok THEN pc' = then /\ result' = result
               ELSE pc' = "drop" /\ result' = "Err"

\* lines 76-82
Open ==
    /\ pc = "open"
    /\ DoWrites(OpenWrites(pretty), "next")
    /\ first' = TRUE
    /\ UNCHANGED <<params, rdFault, pos, chunks, polls, line, value, parsed, discarded>>

ReadFails == rdFault # "none" /\ chunks = rdFaultAt

\* line 84: Lines::next returns Some(Ok(line)).
NextLine ==
    /\ pc = "next"
    /\ ~ReadFails
    /\ LET r == ReadLine(stream, pos) IN
       /\ r.kind = "ok"
       /\ line' = r.line
       /\ pos' = r.pos
    /\ chunks' = chunks + 1
    /\ polls' = 1 - polls
    /\ pc' = "sep"
    /\ UNCHANGED <<params, rdFault, value, first, buf, sink, writes, parsed, discarded, result>>

\* line 84: Lines::next returns Some(Err(e)); flatten() iterates over the
\* Result, which yields nothing for an Err, and asks for the next item.
NextErr ==
    /\ pc = "next"
    /\ IF ReadFails
       THEN /\ rdFault' = IF rdFault = "transient" THEN "none" ELSE rdFault
            /\ UNCHANGED <<pos, chunks>>
       ELSE LET r == ReadLine(stream, pos) IN
            /\ r.kind = "err"
            /\ pos' = r.pos
            /\ chunks' = chunks + 1
            /\ UNCHANGED rdFault
    /\ polls' = 1 - polls
    /\ discarded' = TRUE
    /\ UNCHANGED <<params, line, value, first, buf, sink, writes, parsed, result, pc>>

\* line 84: Lines::next returns None.
NextEof ==
    /\ pc = "next"
    /\ ~ReadFails
    /\ ReadLine(stream, pos).kind = "eof"
    /\ pc' = "close"
    /\ UNCHANGED <<params, rdFault, pos, chunks, polls, line, value, first, buf, sink,
                   writes, parsed, discarded, result>>

\* lines 85-93: line 93 is reached when the writes of lines 86 and 89 succeed.
Separator ==
    /\ pc = "sep"
    /\ DoWrites(SeparatorWrites(first, pretty), "parse")
    /\ first' = IF pc' = "parse" THEN FALSE ELSE first
    /\ UNCHANGED <<params, rdFault, pos, chunks, polls, line, value, parsed, discarded>>

\* Mutant of Parse: a line that does not parse is skipped.
ParseSkipsInvalid ==
    /\ pc = "parse"
    /\ parsed' = Append(parsed, line)
    /\ LET r == FromStr(line) IN
       IF r.ok THEN value' = r.v /\ pc' = "write"
               ELSE value' = value /\ pc' = "next"
    /\ UNCHANGED <<params, rdFault, pos, chunks, polls, line, first, buf, sink, writes,
                   discarded, result>>

\* line 95
Parse ==
    /\ pc = "parse"
    /\ parsed' = Append(parsed, line)
    /\ LET r == FromStr(line) IN
       IF r.ok THEN value' = r.v /\ pc' = "write" /\ result' = result
               ELSE value' = value /\ pc' = "drop" /\ result' = "Err"
    /\ UNCHANGED <<params, rdFault, pos, chunks, polls, line, first, buf, sink, writes,
                   discarded>>

\* lines 97-103
WriteElem ==
    /\ pc = "write"
    /\ DoWrites(<<Serialized(value, pretty)>>, "next")
    /\ UNCHANGED <<params, rdFault, pos, chunks, polls, line, value, first, parsed,
                   discarded>>

\* lines 106-112
Close ==
    /\ pc = "close"
    /\ LET r == WriteSeq([buf |-> buf, sink |-> sink], sinkCap, CloseWrites(pretty), writes) IN
       /\ buf' = r.buf
       /\ sink' = r.sink
       /\ writes' = r.log
       /\ result' = IF r.ok THEN "Ok" ELSE "Err"
    /\ pc' = "drop"
    /\ UNCHANGED <<params, rdFault, pos, chunks, polls, line, value, first, parsed,
                   discarded>>

\* process returns: the BufWriter of line 74 is dropped, and its Drop
\* flushes the buffer and throws the result of the flush away.
Drop ==
    /\ pc = "drop"
    /\ LET r == FlushBuf([buf |-> buf, sink |-> sink], sinkCap) IN
       /\ buf' = r.buf
       /\ sink' = r.sink
    /\ pc' = "done"
    /\ UNCHANGED <<params, rdFault, pos, chunks, polls, line, value, first, writes,
                   parsed, discarded, result>>

Next ==
    \/ Open
    \/ NextLine
    \/ NextErr
    \/ NextEof
    \/ Separator
    \/ Parse
    \/ WriteElem
    \/ Close
    \/ Drop

Spec == Init /\ [][Next]_vars

\* A loop iteration is a step of the running program, not an environment's choice.
FairSpec == Spec /\ WF_vars(Next)

\* ================================================================ properties
\* What the properties speak of, stated without the operators of the reader.
LineFeeds(s) == {i \in 1..Len(s) : s[i] = NL}

\* A line starts at the first byte and after every line feed, when a byte
\* is there: an empty run at the very end of the stream is no line.
LineStarts(s, feeds) == {p \in {1} \cup {i + 1 : i \in feeds} : p <= Len(s)}

\* The line that starts at p: up to the next line feed or the end of the
\* stream; the line break ("\n" or "\r\n") is not part of it.
LineAt(s, feeds, p) ==
    LET after == {i \in feeds : i >= p} IN
    IF after = {} THEN SubSeq(s, p, Len(s))
    ELSE LET e == CHOOSE i \in after : \A j \in after : i <= j IN
         IF e - 1 >= p /\ s[e - 1] = CR THEN SubSeq(s, p, e - 2) ELSE SubSeq(s, p, e - 1)

\* The lines of the stream, in order.
InputLines(s) ==
    LET feeds == LineFeeds(s)
        starts == LineStarts(s, feeds) IN
    [k \in 1..Cardinality(starts) |->
        LineAt(s, feeds, CHOOSE p \in starts : Cardinality({q \in starts : q < p}) = k - 1)]

IsText(l) == \A i \in 1..Len(l) : l[i] # BadByte
IsValidJson(l) == IsText(l) /\ FromStr(l).ok

\* The lines that can be read as text.
TextLines(s) == SelectSeq(InputLines(s), IsText)

AllLinesValid == \A i \in DOMAIN InputLines(stream) : IsValidJson(InputLines(stream)[i])

\* Index of the first line of ls that is not valid JSON; 0 when there is none.
FirstInvalid(ls) ==
    LET bad == {i \in DOMAIN ls : ~FromStr(ls[i]).ok} IN
    IF bad = {} THEN 0 ELSE CHOOSE i \in bad : \A j \in bad : i <= j

RECURSIVE Flat(_)
Flat(ws) == IF ws = <<>> THEN <<>> ELSE Head(ws) \o Flat(Tail(ws))

\* The framing writes; no serialized value is one of them.
Framing == {<<"[">>, <<"]">>, <<",">>, <<NL>>}
IsElement(w) == w \notin Framing
Elements(ws) == SelectSeq(ws, IsElement)
Count(ws, w) == Cardinality({i \in DOMAIN ws : ws[i] = w})

SinkHealthy == sinkCap = -1
Done == pc = "done"

\* C1: when all N lines of the input are valid JSON (and the writer accepts
\* what it is given), process returns Ok, the writes start with '[' and end
\* with ']', and exactly N elements are written between, the i-th being the
\* serialization of the value parsed from the i-th line, which parses back
\* to that same value.
C1_ElementsMatchLines ==
    (Done /\ AllLinesValid /\ SinkHealthy) =>
        LET ls == InputLines(stream)
            es == Elements(writes) IN
        /\ result = "Ok"
        /\ writes # <<>> /\ Head(writes) = <<"[">> /\ writes[Len(writes)] = <<"]">>
        /\ Len(es) = Len(ls)
        /\ \A i \in DOMAIN ls :
              /\ es[i] = Serialized(FromStr(ls[i]).v, pretty)
              /\ FromStr(es[i]).ok
              /\ FromStr(es[i]).v = FromStr(ls[i]).v
        /\ sink = Flat(writes)

C1_Witness ==
    /\ Done /\ result = "Ok" /\ SinkHealthy
    /\ InputLines(stream) = <<LineArr, LineFoo>>
    /\ Len(Elements(writes)) = 2

\* The writes the claim C2 describes, for the elements es.
RECURSIVE ExpectedRest(_, _)
ExpectedRest(es, p) ==
    IF es = <<>> THEN (IF p THEN <<(<<NL>>)>> ELSE <<>>) \o <<(<<"]">>)>>
    ELSE <<(<<",">>)>> \o (IF p THEN <<(<<NL>>)>> ELSE <<>>) \o <<Head(es)>>
         \o ExpectedRest(Tail(es), p)
ExpectedWrites(es, p) ==
    <<(<<"[">>)>> \o (IF p THEN <<(<<NL>>)>> ELSE <<>>) \o <<Head(es)>>
    \o ExpectedRest(Tail(es), p)

\* C2: when process succeeds on N >= 1 lines, its writes are exactly '[',
\* a newline iff pretty, element 1, then for i in 2..N a ',' (and a newline
\* iff pretty) and element i, then a newline iff pretty, then ']': N-1
\* commas, and no newline from the framing in compact mode.
C2_WriteSequence ==
    (Done /\ result = "Ok" /\ Len(TextLines(stream)) >= 1) =>
        LET ls == TextLines(stream)
            es == [i \in DOMAIN ls |-> Serialized(FromStr(ls[i]).v, pretty)] IN
        /\ writes = ExpectedWrites(es, pretty)
        /\ Count(writes, <<",">>) = Len(ls) - 1
        /\ ~pretty => Count(writes, <<NL>>) = 0

C2_Witness ==
    /\ Done /\ result = "Ok" /\ pretty
    /\ stream = Join(<<LineFoo, LineFoo>>, FALSE)
    /\ sink = <<"[", NL>> \o ToStringPretty(FromStr(LineFoo).v) \o <<",", NL>>
              \o ToStringPretty(FromStr(LineFoo).v) \o <<NL, "]">>

\* C3: an empty input stream in compact mode returns Ok and the output is
\* exactly the two characters '[' and ']'.
C3_EmptyCompact ==
    (Done /\ stream = <<>> /\ ~pretty) =>
        /\ result = "Ok"
        /\ Flat(writes) = <<"[", "]">>
        /\ SinkHealthy => sink = <<"[", "]">>

C3_Witness == Done /\ stream = <<>> /\ ~pretty /\ result = "Ok" /\ sink = <<"[", "]">>

\* C4: an empty input stream in pretty mode yields exactly '[', one
\* newline, ']'.
C4_EmptyPretty ==
    (Done /\ stream = <<>> /\ pretty /\ SinkHealthy) => sink = <<"[", NL, "]">>

\* C5: when some line is not valid JSON, process never returns Ok and ends
\* with an error; it stops at the first such line: the lines parsed are the
\* lines up to that one, no element is written for it or a later line, and
\* ']' is never written.
C5_FailsAtFirstInvalid ==
    LET ls == TextLines(stream)
        f == FirstInvalid(ls) IN
    f > 0 =>
        /\ result # "Ok"
        /\ Done => result = "Err"
        /\ Len(parsed) <= f
        /\ \A i \in DOMAIN parsed : parsed[i] = ls[i]
        /\ Len(parsed) = f => (pc \in {"drop", "done"} /\ result = "Err")
        /\ Len(Elements(writes)) < f
        /\ Count(writes, <<"]">>) = 0

C5_Witness ==
    /\ Done /\ result = "Err" /\ SinkHealthy
    /\ TextLines(stream) = <<LineFoo, LineMalformed, LineArr>>
    /\ parsed = <<LineFoo, LineMalformed>>
    /\ Len(Elements(writes)) = 1

\* C6: a read error makes process return an error, and the closing
\* bracket is not written.
C6_ReadErrorPropagates ==
    (Done /\ discarded) => (result = "Err" /\ Count(writes, <<"]">>) = 0)

\* C7: process returns Ok only if every byte of the output document, up to
\* and including the closing ']', is in the sink.
C7_OkMeansWritten ==
    (Done /\ result = "Ok") => sink = Flat(writes)

\* C8: at the end of a run (the writer accepting what it is given) the
\* output is a well-formed JSON array if and only if every input line was
\* read and was valid JSON.
IsJsonArray(s) == FromStr(s).ok /\ FromStr(s).v.t = "arr"
C8_WellFormedIffAllValid ==
    (Done /\ SinkHealthy) => (IsJsonArray(sink) <=> AllLinesValid)

\* C9: a blank line is not skipped by line splitting: the lines handed to
\* the parser are the lines of the input, blank ones included, in order;
\* the parser rejects the empty line; and a run that gets to a blank line
\* ends with an error.
C9_BlankLineFails ==
    LET ls == TextLines(stream)
        f == FirstInvalid(ls) IN
    /\ ~FromStr(<<>>).ok
    /\ Len(parsed) <= Len(ls)
    /\ \A i \in DOMAIN parsed : parsed[i] = ls[i]
    /\ (Done /\ \E i \in DOMAIN ls : ls[i] = <<>>) => result = "Err"
    /\ (Done /\ SinkHealthy /\ f > 0 /\ ls[f] = <<>>) =>
           (Len(parsed) = f /\ parsed[f] = <<>>)

C9_Witness ==
    /\ Done /\ result = "Err" /\ SinkHealthy
    /\ stream = Join(<<LineFoo, LineBlank, LineFoo>>, FALSE)
    /\ parsed = <<LineFoo, LineBlank>>

C9_WitnessAtEnd ==
    /\ Done /\ result = "Err" /\ SinkHealthy
    /\ stream = LineFoo \o <<NL, NL>>
    /\ parsed = <<LineFoo, LineBlank>>

\* C10: process always terminates.
C10_Terminates == <>(pc = "done")
====
